---- MODULE Spec2Model ----
(***************************************************************************)
(* Model of backend/main.py of kakduman/hoglin: the article pipeline.      *)
(* main() loads the recent article hashes from the news directory, fetches *)
(* the feed, and runs process_single_article for every article on a        *)
(* ThreadPoolExecutor.  Each worker checks the dedup set under a lock,     *)
(* converts the article with up to max_retries backend calls, generates a  *)
(* thumbnail, writes the JSON record and adds its hash to the set.         *)
(*                                                                         *)
(* Strings are TLA+ strings.  Python's None is the string None.  SHA-256   *)
(* is modelled as an injective function of its payload.  The clock is an   *)
(* integer number of ticks; TicksPerDay ticks make one day.                *)
(***************************************************************************)
EXTENDS Integers, Sequences, FiniteSets, TLC

\* ---------------------------------------------------------------- bounds
MaxNumArticles == 2
MaxRuns == 2
MaxTicks == 1
TicksPerDay == 1

\* ------------------------------------------------------ program constants
NUM_ARTICLES == 1
max_retries == 3
MaxPoolWorkers == 5
RetentionDays == 7
SafeTitleLen == 50
\* generate_and_save_image: the size ceiling, the first quality, the step
\* and the lowest quality at which the loop still goes on
CeilingBytes == 1000000
MaxQuality == 100
QualityStep == 5
LoopFloor == 30
DemoKey == "demo-secret-change-me-041f6a73"

None == "<None>"
Absent == "<absent>"
Null == "<null>"

\* ------------------------------------------------------------ input sets
\* secrets the environment may hold in ARTICLE_HASH_KEY ("" is unset)
EnvHashKeys == {"", "k"}
\* titles are sequences of characters
TitleTestEvent == <<"T", "e", "s", "t", " ", "E", "v", "e", "n", "t">>
TitleTestColonEvent == <<"T", "e", "s", "t", ":", " ", "E", "v", "e", "n", "t">>
TitleNews == <<"n", "e", "s", "t", "!", " ">>
Article(title, id) == [title |-> title, article_id |-> id]
\* the articles a feed can hold
Items == {Article(TitleTestEvent, "abc123"), Article(TitleTestColonEvent, "abc123"),
          Article(TitleTestEvent, None), Article(TitleNews, "")}

\* values a field of the backend's JSON object can take
FieldVals == {Absent, "", "s", Null}

\* responses of one chat.sample() call, as json.loads sees them
BadJson == [kind |-> "badjson", headline |-> Absent, text |-> Absent]
BackendError == [kind |-> "error", headline |-> Absent, text |-> Absent]
JsonScalar == [kind |-> "scalar", headline |-> Absent, text |-> Absent]
JsonObject(h, t) == [kind |-> "object", headline |-> h, text |-> t]
Responses ==
    {BadJson, BackendError, JsonScalar}
        \cup {JsonObject(h, t) : h \in FieldVals, t \in FieldVals}
NoResponse == [kind |-> "none", headline |-> Absent, text |-> Absent]

\* ------------------------------------------------------------- variables
VARIABLES
    envHashKey,     \* os.getenv("ARTICLE_HASH_KEY"), "" when unset
    envApiKey,      \* whether XAI_API_KEY is set
    num_articles,   \* main: num_articles
    now,            \* the clock, datetime.now(timezone.utc)
    run,            \* number of the current invocation of main()
    mainPc,         \* position of main()
    hash_key,       \* main: hash_key after the fallback
    known_hashes,   \* main: recent_hashes, shared with the workers
    lockHolder,     \* hashes_lock: 0 when free, else the worker holding it
    articles,       \* main: articles, the fetched list
    pc,             \* per article: position of process_single_article
    hashed_id,      \* per article: hashed_id
    attempt,        \* per article: loop variable of convert_to_emojipasta
    calls,          \* per article: number of chat.sample() calls made
    lastResp,       \* per article: the last backend response
    emojipasta_data,\* per article: the dict being built (or NoData)
    timestamp,      \* per article: timestamp taken at line 184
    imgCalls,       \* per article: number of client.image.sample() calls
    image_filename, \* per article: result of generate_and_save_image
    filename,       \* per article: return value of process_single_article
    exc,            \* per article: the exception that ended the worker
    sawDup,         \* per article: outcome of the membership test
    disk,           \* NEWS_OUTPUT_DIR: file name -> content
    thumbs,         \* NEWS_THUMBNAILS_DIR: file name -> content
    collected,      \* main: futures already yielded by as_completed
    saved_files,    \* main: saved_files
    errors,         \* main: articles whose exception was printed
    quality,        \* image loop: quality
    dataLen,        \* image loop: len(data)
    encodes,        \* image loop: number of img.save calls so far
    loopPc,         \* image loop: position
    sizeAt          \* the encoder: quality -> length of the JPEG

vars == <<envHashKey, envApiKey, num_articles, now, run, mainPc, hash_key,
          known_hashes, lockHolder, articles, pc, hashed_id, attempt, calls,
          lastResp, emojipasta_data, timestamp, imgCalls, image_filename,
          filename, exc, sawDup, disk, thumbs, collected, saved_files,
          errors, quality, dataLen, encodes, loopPc, sizeAt>>

\* one article more than the pool has threads, so that the cap can bind
FanOutArticles == MaxPoolWorkers + 1
Slots == 1..(IF MaxNumArticles > FanOutArticles THEN MaxNumArticles ELSE FanOutArticles)
Arts == 1..Len(articles)

\* ------------------------------------------------------- pure functions
\* the same without the digest: the identifier itself is the token
hash_article_id_plain(raw_id, secret) == raw_id

\* hash_article_id: sha256 of "secret:raw_id"
hash_article_id(raw_id, secret) == "sha256(" \o secret \o ":" \o raw_id \o ")"

\* Python truthiness of a value read from a JSON object with .get()
Truthy(v) == v \notin {Absent, None, Null, ""}

Min(a, b) == IF a < b THEN a ELSE b

\* characters of the titles for which str.isalnum() is true
AlnumChars == {"T", "e", "s", "t", "E", "v", "n"}
KeepChar(c) == c \in AlnumChars \/ c \in {" ", "-", "_"}

RECURSIVE FilterKept(_)
FilterKept(s) ==
    IF s = <<>> THEN <<>>
    ELSE IF KeepChar(Head(s)) THEN <<Head(s)>> \o FilterKept(Tail(s))
    ELSE FilterKept(Tail(s))

RECURSIVE RStrip(_)
RStrip(s) ==
    IF s = <<>> THEN <<>>
    ELSE IF s[Len(s)] = " " THEN RStrip(SubSeq(s, 1, Len(s) - 1))
    ELSE s

SpacesToUnderscores(s) == [i \in 1..Len(s) |-> IF s[i] = " " THEN "_" ELSE s[i]]

\* the safe_title of save_emojipasta_json and generate_and_save_image
SafeTitle(title) ==
    LET replaced == SpacesToUnderscores(RStrip(FilterKept(title)))
    IN  SubSeq(replaced, 1, Min(Len(replaced), SafeTitleLen))

\* f"{timestamp_str}_{safe_title}" : the stem shared by the two files
\* safe_title of every title of the feeds, computed once
Titles == {TitleTestEvent, TitleTestColonEvent, TitleNews}
SafeTitles == [title \in Titles |-> SafeTitle(title)]
FileName(ts, title) == [ts |-> ts, stem |-> SafeTitles[title]]

\* ------------------------------------------------------------- records
\* the "date" field of a record.  An ISO string reads t on its clock, with
\* a UTC offset off unless it is naive; str() of an aware UTC datetime
\* (line 185) has the offset +00:00
IsoDate(t) == [kind |-> "iso", t |-> t, naive |-> FALSE, off |-> 0]
OffsetDate(t, off) == [kind |-> "iso", t |-> t, naive |-> FALSE, off |-> off]
NaiveDate(t) == [kind |-> "iso", t |-> t, naive |-> TRUE, off |-> 0]
\* no "date" key, or an empty string
MissingDate == [kind |-> "missing", t |-> 0, naive |-> FALSE, off |-> 0]
\* a string fromisoformat rejects with ValueError
BadDate == [kind |-> "bad", t |-> 0, naive |-> FALSE, off |-> 0]
\* a truthy value that is no string: fromisoformat raises TypeError
NonStringDate == [kind |-> "nonstring", t |-> 0, naive |-> FALSE, off |-> 0]

\* a file name; NoName stands for None where a name is expected
NoName == [ts |-> 0, stem |-> <<>>]
NoData == [headline |-> Absent, text |-> Absent, article_id |-> Absent,
           article_hash |-> Absent, date |-> MissingDate, image |-> NoName,
           isNone |-> TRUE]
\* the dict json.loads returns for an object response
ResultOf(r) == [headline |-> r.headline, text |-> r.text, article_id |-> Absent,
                article_hash |-> Absent, date |-> MissingDate, image |-> NoName,
                isNone |-> FALSE]
\* a record of an earlier version of the program, found in the directory
OldRecord(h, d) == [headline |-> "s", text |-> "s", article_id |-> Absent,
                    article_hash |-> h, date |-> d, image |-> NoName,
                    isNone |-> FALSE]

\* a file of NEWS_OUTPUT_DIR: parsable or not, its JSON content, and who
\* wrote it (run 0: it was there before the first run)
File(ok, data, r, a) == [ok |-> ok, data |-> data, run |-> r, by |-> a]

Window == RetentionDays * TicksPerDay
StartTime == Window + 1
MaxTime == StartTime + MaxTicks

\* lines 61-62: a naive datetime is given the UTC zone; the value is the
\* instant on the UTC clock
AsUtc(date) == IF date.naive THEN date.t ELSE date.t - date.off

InWindowStrict(dt, cutoff) == dt > cutoff

\* line 64: dt >= cutoff
InWindow(dt, cutoff) == dt >= cutoff

\* lines 46-67: what one file adds to the set.  A file that cannot be read
\* or parsed, and a date that is no string, raise inside the try and are
\* caught at line 66; a missing token or date and a ValueError continue
HashesOfFile(file, cutoff) ==
    IF ~file.ok THEN {}
    ELSE LET token == file.data.article_hash
             date_str == file.data.date
         IN  IF ~Truthy(token) \/ date_str.kind = "missing" THEN {}
             ELSE IF date_str.kind = "bad" THEN {}
             ELSE IF date_str.kind = "nonstring" THEN {}
             ELSE IF InWindow(AsUtc(date_str), cutoff) THEN {token} ELSE {}

\* load_recent_article_hashes(days) on a directory at a time
load_recent_article_hashes(dir, t, days) ==
    LET cutoff == t - days * TicksPerDay
    IN  UNION {HashesOfFile(dir[f], cutoff) : f \in DOMAIN dir}

\* the directories the first run can find
RecentHash(key) ==
    File(TRUE, OldRecord(hash_article_id("abc123", key), IsoDate(StartTime - Window)), 0, 0)
ExpiredHash(key) ==
    File(TRUE, OldRecord(hash_article_id("abc123", key), IsoDate(StartTime - Window - 1)), 0, 0)
EmptyDir == [f \in {} |-> File(FALSE, NoData, 0, 0)]
DirWith(file) == [f \in {FileName(0, TitleNews)} |-> file]
InitDirs == {EmptyDir, DirWith(RecentHash("k")), DirWith(RecentHash(DemoKey)),
             DirWith(ExpiredHash("k"))}

\* all sequences over S of length 1..n
RECURSIVE SeqsUpTo(_, _)
SeqsUpTo(S, n) ==
    IF n = 0 THEN {}
    ELSE {<<x>> : x \in S}
            \cup {Append(q, x) : q \in SeqsUpTo(S, n - 1), x \in S}

\* ------------------------------------------------------------------ Init
IdleWorkers ==
    /\ pc = [a \in Slots |-> "idle"]
    /\ hashed_id = [a \in Slots |-> None]
    /\ attempt = [a \in Slots |-> 0]
    /\ calls = [a \in Slots |-> 0]
    /\ lastResp = [a \in Slots |-> NoResponse]
    /\ emojipasta_data = [a \in Slots |-> NoData]
    /\ timestamp = [a \in Slots |-> 0]
    /\ imgCalls = [a \in Slots |-> 0]
    /\ image_filename = [a \in Slots |-> NoName]
    /\ filename = [a \in Slots |-> NoName]
    /\ exc = [a \in Slots |-> None]
    /\ sawDup = [a \in Slots |-> FALSE]

\* the qualities the loop asks for, and the next one below them
Qualities ==
    {q \in (LoopFloor - 2 * QualityStep)..MaxQuality :
        (MaxQuality - q) % QualityStep = 0}

\* the re-encoding loop has not been entered
IdleLoop ==
    /\ quality = MaxQuality
    /\ dataLen = 0
    /\ encodes = 0
    /\ loopPc = "start"

InitWith(counts, dirs) ==
    /\ envHashKey \in EnvHashKeys
    /\ envApiKey \in BOOLEAN
    /\ num_articles \in counts
    /\ now = StartTime
    /\ run = 1
    /\ mainPc = "start"
    /\ hash_key = None
    /\ known_hashes = {}
    /\ lockHolder = 0
    /\ articles = <<>>
    /\ IdleWorkers
    /\ disk \in dirs
    /\ thumbs = EmptyDir
    /\ collected = {}
    /\ saved_files = <<>>
    /\ errors = {}
    /\ IdleLoop
    /\ sizeAt = [q \in Qualities |-> CeilingBytes]

workerVars == <<pc, hashed_id, attempt, calls, lastResp, emojipasta_data,
                timestamp, imgCalls, image_filename, filename, exc, sawDup>>
envVars == <<envHashKey, envApiKey, num_articles>>
loopVars == <<quality, dataLen, encodes, loopPc, sizeAt>>
mainVars == <<mainPc, hash_key, articles, collected, saved_files, errors>>

\* ------------------------------------------------------------------ main
EffectiveKeyNoFallback(env) == env

\* main, lines 391-394: the fallback to the demo key
EffectiveKey(env) == IF env = "" THEN DemoKey ELSE env

\* main, lines 390-398: the key and the load of the recent hashes
LoadHashes ==
    /\ mainPc = "start"
    /\ hash_key' = EffectiveKey(envHashKey)
    /\ known_hashes' = load_recent_article_hashes(disk, now, RetentionDays)
    /\ mainPc' = "fetch"
    /\ UNCHANGED <<envVars, loopVars, now, run, lockHolder, articles, workerVars, disk,
                   thumbs, collected, saved_files, errors>>

\* the same for a feed that is read lazily: the failure comes after dispatch
FetchFailLate ==
    /\ mainPc \in {"fetch", "pool"}
    /\ mainPc' = "aborted"
    /\ UNCHANGED <<envVars, loopVars, now, run, hash_key, known_hashes, lockHolder,
                   articles, workerVars, disk, thumbs, collected, saved_files,
                   errors>>

\* fetch_news_articles raises: the exception leaves main
FetchFail ==
    /\ mainPc = "fetch"
    /\ mainPc' = "aborted"
    /\ UNCHANGED <<envVars, loopVars, now, run, hash_key, known_hashes, lockHolder,
                   articles, workerVars, disk, thumbs, collected, saved_files,
                   errors>>

\* fetch_news_articles returns items[:num_articles]; main submits them all
FetchAndSubmit(feed) ==
    /\ mainPc = "fetch"
    /\ articles' = feed
    /\ pc' = [a \in Slots |-> IF a <= Len(feed) THEN "queued" ELSE "idle"]
    /\ mainPc' = "pool"
    /\ UNCHANGED <<envVars, loopVars, now, run, hash_key, known_hashes, lockHolder,
                   hashed_id, attempt, calls, lastResp, emojipasta_data,
                   timestamp, imgCalls, image_filename, filename, exc, sawDup,
                   disk, thumbs, collected, saved_files, errors>>

Terminal == {"skipped", "persisted", "failed"}
Running == {"lock_check", "check", "convert", "stamp", "image", "save",
            "lock_add", "add"}

\* the same without the cap: one thread per requested article
PoolSizeUncapped == num_articles

\* ThreadPoolExecutor(max_workers=min(num_articles, 5))
PoolSize == Min(num_articles, MaxPoolWorkers)

\* ------------------------------------------------- process_single_article
\* the same without the guard of line 169: None is formatted into the payload
TokenOfUnguarded(raw_id, key) == hash_article_id(raw_id, key)

\* lines 168-170: the token, computed when there is an id and a key
TokenOf(raw_id, key) ==
    IF Truthy(raw_id) /\ Truthy(key) THEN hash_article_id(raw_id, key) ELSE None

\* a pool thread takes the next task of the queue; lines 164-170
Start(a) ==
    /\ mainPc = "pool"
    /\ a \in Arts
    /\ pc[a] = "queued"
    /\ \A b \in Arts : b < a => pc[b] # "queued"
    /\ Cardinality({b \in Arts : pc[b] \in Running}) < PoolSize
    /\ hashed_id' = [hashed_id EXCEPT ![a] = TokenOf(articles[a].article_id, hash_key)]
    /\ pc' = [pc EXCEPT ![a] = IF hashed_id'[a] # None THEN "lock_check" ELSE "convert"]
    /\ UNCHANGED <<envVars, loopVars, now, run, mainVars, known_hashes, lockHolder,
                   attempt, calls, lastResp, emojipasta_data, timestamp,
                   imgCalls, image_filename, filename, exc, sawDup, disk, thumbs>>

\* line 171: with hashes_lock (entry)
AcquireForCheck(a) ==
    /\ a \in Arts
    /\ pc[a] = "lock_check"
    /\ lockHolder = 0
    /\ lockHolder' = a
    /\ pc' = [pc EXCEPT ![a] = "check"]
    /\ UNCHANGED <<envVars, loopVars, now, run, mainVars, known_hashes, hashed_id,
                   attempt, calls, lastResp, emojipasta_data, timestamp,
                   imgCalls, image_filename, filename, exc, sawDup, disk, thumbs>>

AfterCheckNoReturn(dup) == "convert"

\* lines 172-174: where the worker goes after the membership test
AfterCheck(dup) == IF dup THEN "skipped" ELSE "convert"

\* the same as an atomic check-and-insert: an absent token is added at once
CheckAndInsert(a) ==
    /\ a \in Arts
    /\ pc[a] = "check"
    /\ lockHolder = a
    /\ sawDup' = [sawDup EXCEPT ![a] = hashed_id[a] \in known_hashes]
    /\ pc' = [pc EXCEPT ![a] = AfterCheck(hashed_id[a] \in known_hashes)]
    /\ known_hashes' = known_hashes \cup {hashed_id[a]}
    /\ lockHolder' = 0
    /\ UNCHANGED <<envVars, loopVars, now, run, mainVars, hashed_id,
                   attempt, calls, lastResp, emojipasta_data, timestamp,
                   imgCalls, image_filename, filename, exc, disk, thumbs>>

\* the same with acquire()/release() calls in place of the with statement:
\* the early return of line 174 leaves without the release
CheckKnownKeepLock(a) ==
    /\ a \in Arts
    /\ pc[a] = "check"
    /\ lockHolder = a
    /\ sawDup' = [sawDup EXCEPT ![a] = hashed_id[a] \in known_hashes]
    /\ pc' = [pc EXCEPT ![a] = AfterCheck(hashed_id[a] \in known_hashes)]
    /\ lockHolder' = IF hashed_id[a] \in known_hashes THEN a ELSE 0
    /\ UNCHANGED <<envVars, loopVars, now, run, mainVars, known_hashes, hashed_id,
                   attempt, calls, lastResp, emojipasta_data, timestamp,
                   imgCalls, image_filename, filename, exc, disk, thumbs>>

\* lines 172-174: the membership test, the early return, the lock release
CheckKnown(a) ==
    /\ a \in Arts
    /\ pc[a] = "check"
    /\ lockHolder = a
    /\ sawDup' = [sawDup EXCEPT ![a] = hashed_id[a] \in known_hashes]
    /\ pc' = [pc EXCEPT ![a] = AfterCheck(hashed_id[a] \in known_hashes)]
    /\ lockHolder' = 0
    /\ UNCHANGED <<envVars, loopVars, now, run, mainVars, known_hashes, hashed_id,
                   attempt, calls, lastResp, emojipasta_data, timestamp,
                   imgCalls, image_filename, filename, exc, disk, thumbs>>

\* ---------------------------------------------------- convert_to_emojipasta
\* lines 206-208: no API key, ValueError before any backend call
ConvertNoKey(a) ==
    /\ a \in Arts
    /\ pc[a] = "convert"
    /\ ~envApiKey
    /\ exc' = [exc EXCEPT ![a] = "ValueError"]
    /\ pc' = [pc EXCEPT ![a] = "failed"]
    /\ UNCHANGED <<envVars, loopVars, now, run, mainVars, known_hashes, lockHolder,
                   hashed_id, attempt, calls, lastResp, emojipasta_data,
                   timestamp, imgCalls, image_filename, filename, sawDup,
                   disk, thumbs>>

HasRequiredFieldsNever(r) == FALSE

\* line 283: the validation of the parsed response
HasRequiredFields(r) ==
    r.kind = "object" /\ r.headline # Absent /\ r.text # Absent

MoreAttemptsOffByOne(n) == n + 1 <= max_retries

\* lines 218-305: whether another iteration follows a failed attempt
MoreAttempts(n) == n + 1 < max_retries

\* one iteration of the retry loop with backend response r; the last failed
\* iteration falls out of the loop and the function returns None
Attempt(a, r) ==
    /\ a \in Arts
    /\ pc[a] = "convert"
    /\ envApiKey
    /\ calls' = [calls EXCEPT ![a] = @ + 1]
    /\ lastResp' = [lastResp EXCEPT ![a] = r]
    /\ IF HasRequiredFields(r)
       THEN /\ emojipasta_data' = [emojipasta_data EXCEPT ![a] = ResultOf(r)]
            /\ pc' = [pc EXCEPT ![a] = "stamp"]
            /\ UNCHANGED attempt
       ELSE /\ attempt' = [attempt EXCEPT ![a] = @ + 1]
            /\ emojipasta_data' = [emojipasta_data EXCEPT ![a] = NoData]
            /\ pc' = [pc EXCEPT ![a] = IF MoreAttempts(attempt[a]) THEN "convert" ELSE "stamp"]
    /\ UNCHANGED <<envVars, loopVars, now, run, mainVars, known_hashes, lockHolder,
                   hashed_id, timestamp, imgCalls, image_filename, filename,
                   exc, sawDup, disk, thumbs>>

\* lines 181-182: the key under which the token is stored in the record
WithToken(data, h) == [data EXCEPT !.article_id = h]

ItemAssignmentNeverRaises(data) == FALSE

\* lines 182 and 185: item assignment on None raises TypeError
ItemAssignmentRaises(data) == data.isNone

\* lines 181-186: the token and the date are stored in the dict
Stamp(a) ==
    /\ a \in Arts
    /\ pc[a] = "stamp"
    /\ IF ItemAssignmentRaises(emojipasta_data[a])
       THEN /\ exc' = [exc EXCEPT ![a] = "TypeError"]
            /\ pc' = [pc EXCEPT ![a] = "failed"]
            /\ UNCHANGED <<emojipasta_data, timestamp>>
       ELSE /\ timestamp' = [timestamp EXCEPT ![a] = now]
            /\ emojipasta_data' = [emojipasta_data EXCEPT ![a] =
                    [(IF hashed_id[a] # None THEN WithToken(@, hashed_id[a]) ELSE @)
                        EXCEPT !.date = IsoDate(now)]]
            /\ pc' = [pc EXCEPT ![a] = "image"]
            /\ UNCHANGED exc
    /\ UNCHANGED <<envVars, loopVars, now, run, mainVars, known_hashes, lockHolder,
                   hashed_id, attempt, calls, lastResp, imgCalls,
                   image_filename, filename, sawDup, disk, thumbs>>

\* open(name, "w") and a complete write
Write(dir, name, file) ==
    [f \in (DOMAIN dir) \cup {name} |-> IF f = name THEN file ELSE dir[f]]

\* ------------------------------------------------ generate_and_save_image
\* line 340: .get("text", "")[:300] needs a string
IsString(v) == v \notin {Absent, Null, None}

\* line 189: os.path.basename of the returned name; None raises TypeError
BasenameRaises(name) == name = NoName

\* lines 188-189: generate_and_save_image and the image field.  img is the
\* outcome of the backend call, the decoding and the file write together.
Image(a, img) ==
    /\ a \in Arts
    /\ pc[a] = "image"
    /\ LET name == FileName(timestamp[a], articles[a].title)
           keyed == envApiKey
           textOk == IsString(emojipasta_data[a].text)
           called == keyed /\ textOk
           result == IF called /\ img = "ok" THEN name ELSE NoName
       IN  /\ imgCalls' = [imgCalls EXCEPT ![a] = IF called THEN @ + 1 ELSE @]
           /\ thumbs' = IF result # NoName
                         THEN Write(thumbs, name, File(TRUE, NoData, run, a))
                         ELSE thumbs
           /\ image_filename' = [image_filename EXCEPT ![a] = result]
           /\ IF (keyed /\ ~textOk) \/ BasenameRaises(result)
              THEN /\ exc' = [exc EXCEPT ![a] = "TypeError"]
                   /\ pc' = [pc EXCEPT ![a] = "failed"]
                   /\ UNCHANGED emojipasta_data
              ELSE /\ emojipasta_data' = [emojipasta_data EXCEPT ![a].image = result]
                   /\ pc' = [pc EXCEPT ![a] = "save"]
                   /\ UNCHANGED exc
    /\ UNCHANGED <<envVars, loopVars, now, run, mainVars, known_hashes, lockHolder,
                   hashed_id, attempt, calls, lastResp, timestamp, filename,
                   sawDup, disk>>

\* ---------------------------------------------------- save_emojipasta_json
\* lines 192-194: the record is written (out = "ok"), or open() raises
\* ("openfail"), or the write raises after open() truncated the file
\* ("writefail")
Save(a, out) ==
    /\ a \in Arts
    /\ pc[a] = "save"
    /\ LET name == FileName(timestamp[a], articles[a].title)
       IN  CASE out = "ok" ->
                  /\ disk' = Write(disk, name, File(TRUE, emojipasta_data[a], run, a))
                  /\ filename' = [filename EXCEPT ![a] = name]
                  /\ pc' = [pc EXCEPT ![a] = IF hashed_id[a] # None THEN "lock_add" ELSE "persisted"]
                  /\ UNCHANGED exc
             [] out = "openfail" ->
                  /\ exc' = [exc EXCEPT ![a] = "OSError"]
                  /\ pc' = [pc EXCEPT ![a] = "failed"]
                  /\ UNCHANGED <<disk, filename>>
             [] out = "writefail" ->
                  /\ disk' = Write(disk, name, File(FALSE, NoData, run, a))
                  /\ exc' = [exc EXCEPT ![a] = "OSError"]
                  /\ pc' = [pc EXCEPT ![a] = "failed"]
                  /\ UNCHANGED filename
    /\ UNCHANGED <<envVars, loopVars, now, run, mainVars, known_hashes, lockHolder,
                   hashed_id, attempt, calls, lastResp, emojipasta_data,
                   timestamp, imgCalls, image_filename, sawDup, thumbs>>

\* line 195: with hashes_lock (entry)
AcquireForAdd(a) ==
    /\ a \in Arts
    /\ pc[a] = "lock_add"
    /\ lockHolder = 0
    /\ lockHolder' = a
    /\ pc' = [pc EXCEPT ![a] = "add"]
    /\ UNCHANGED <<envVars, loopVars, now, run, mainVars, known_hashes, hashed_id,
                   attempt, calls, lastResp, emojipasta_data, timestamp,
                   imgCalls, image_filename, filename, exc, sawDup, disk, thumbs>>

\* lines 196-199: the token is added, the lock released, the name returned
AddKnown(a) ==
    /\ a \in Arts
    /\ pc[a] = "add"
    /\ lockHolder = a
    /\ known_hashes' = known_hashes \cup {hashed_id[a]}
    /\ lockHolder' = 0
    /\ pc' = [pc EXCEPT ![a] = "persisted"]
    /\ UNCHANGED <<envVars, loopVars, now, run, mainVars, hashed_id, attempt, calls,
                   lastResp, emojipasta_data, timestamp, imgCalls,
                   image_filename, filename, exc, sawDup, disk, thumbs>>

\* ------------------------------------------------------- main, continued
\* lines 419-423: whether future.result() raised
ResultRaises(state) == state = "failed"

\* the same without the except clause: the exception leaves main
CollectUncaught(a) ==
    /\ mainPc = "pool"
    /\ a \in Arts \ collected
    /\ pc[a] \in Terminal
    /\ collected' = collected \cup {a}
    /\ IF ResultRaises(pc[a])
       THEN /\ mainPc' = "aborted"
            /\ UNCHANGED <<saved_files, errors>>
       ELSE /\ saved_files' = Append(saved_files, filename[a])
            /\ UNCHANGED <<errors, mainPc>>
    /\ UNCHANGED <<envVars, loopVars, now, run, hash_key, articles,
                   known_hashes, lockHolder, workerVars, disk, thumbs>>

\* lines 417-423: as_completed yields a finished future
Collect(a) ==
    /\ mainPc = "pool"
    /\ a \in Arts \ collected
    /\ pc[a] \in Terminal
    /\ collected' = collected \cup {a}
    /\ IF ResultRaises(pc[a])
       THEN /\ errors' = errors \cup {a}
            /\ UNCHANGED saved_files
       ELSE /\ saved_files' = Append(saved_files, filename[a])
            /\ UNCHANGED errors
    /\ UNCHANGED <<envVars, loopVars, now, run, mainPc, hash_key, articles,
                   known_hashes, lockHolder, workerVars, disk, thumbs>>

\* lines 425-442: the executor is left, the report is printed
Finish ==
    /\ mainPc = "pool"
    /\ collected = Arts
    /\ mainPc' = "done"
    /\ UNCHANGED <<envVars, loopVars, now, run, hash_key, articles, collected,
                   saved_files, errors, known_hashes, lockHolder, workerVars,
                   disk, thumbs>>

\* the program is started again, d ticks later, with the same environment
NextRun(d) ==
    /\ mainPc \in {"done", "aborted"}
    /\ run < MaxRuns
    /\ run' = run + 1
    /\ now' = now + d
    /\ mainPc' = "start"
    /\ hash_key' = None
    /\ known_hashes' = {}
    /\ articles' = <<>>
    /\ collected' = {}
    /\ saved_files' = <<>>
    /\ errors' = {}
    /\ pc' = [a \in Slots |-> "idle"]
    /\ hashed_id' = [a \in Slots |-> None]
    /\ attempt' = [a \in Slots |-> 0]
    /\ calls' = [a \in Slots |-> 0]
    /\ lastResp' = [a \in Slots |-> NoResponse]
    /\ emojipasta_data' = [a \in Slots |-> NoData]
    /\ timestamp' = [a \in Slots |-> 0]
    /\ imgCalls' = [a \in Slots |-> 0]
    /\ image_filename' = [a \in Slots |-> NoName]
    /\ filename' = [a \in Slots |-> NoName]
    /\ exc' = [a \in Slots |-> None]
    /\ sawDup' = [a \in Slots |-> FALSE]
    /\ UNCHANGED <<envVars, loopVars, lockHolder, disk, thumbs>>

\* the clock advances while the workers run
Tick ==
    /\ mainPc = "pool"
    /\ now < MaxTime
    /\ now' = now + 1
    /\ UNCHANGED <<envVars, loopVars, run, mainVars, known_hashes, lockHolder,
                   workerVars, disk, thumbs>>

ImageOutcomes == {"ok", "error"}
SaveOutcomes == {"ok", "openfail", "writefail"}

\* --------------------------------------------------------------- one run
\* One run of main() with num_articles configured from 1 to MaxNumArticles,
\* on an empty or a one-record directory.  The backend answers every call
\* with unparsable text or with a valid object.
PoolItems == {Article(TitleTestEvent, "abc123"), Article(TitleTestColonEvent, "abc123"),
              Article(TitleTestEvent, None)}
PoolFeeds == SeqsUpTo(PoolItems, MaxNumArticles)
PoolResponses == {BadJson, JsonObject("s", "s")}
PoolDirs == {EmptyDir, DirWith(RecentHash("k"))}

Init == InitWith(NUM_ARTICLES..MaxNumArticles, PoolDirs)

Next ==
    \/ LoadHashes
    \/ FetchFail
    \/ \E feed \in PoolFeeds : Len(feed) <= num_articles /\ FetchAndSubmit(feed)
    \/ \E a \in Slots : Start(a)
    \/ \E a \in Slots : AcquireForCheck(a)
    \/ \E a \in Slots : CheckKnown(a)
    \/ \E a \in Slots : ConvertNoKey(a)
    \/ \E a \in Slots, r \in PoolResponses : Attempt(a, r)
    \/ \E a \in Slots : Stamp(a)
    \/ \E a \in Slots, img \in ImageOutcomes : Image(a, img)
    \/ \E a \in Slots, out \in SaveOutcomes : Save(a, out)
    \/ \E a \in Slots : AcquireForAdd(a)
    \/ \E a \in Slots : AddKnown(a)
    \/ \E a \in Slots : Collect(a)
    \/ Finish
    \/ Tick

Spec == Init /\ [][Next]_vars

\* ------------------------------------------------------- fair scheduling
\* One run with a secret, the clock standing still, under a scheduler that
\* does not stop while a thread can take a step; every backend call and
\* file operation returns, with a value or an error.
InitFair == InitWith(NUM_ARTICLES..MaxNumArticles, PoolDirs) /\ envHashKey = "k"

NextFair ==
    \/ LoadHashes
    \/ FetchFail
    \/ \E feed \in PoolFeeds : Len(feed) <= num_articles /\ FetchAndSubmit(feed)
    \/ \E a \in Slots : Start(a)
    \/ \E a \in Slots : AcquireForCheck(a)
    \/ \E a \in Slots : CheckKnown(a)
    \/ \E a \in Slots : ConvertNoKey(a)
    \/ \E a \in Slots, r \in PoolResponses : Attempt(a, r)
    \/ \E a \in Slots : Stamp(a)
    \/ \E a \in Slots, img \in ImageOutcomes : Image(a, img)
    \/ \E a \in Slots, out \in SaveOutcomes : Save(a, out)
    \/ \E a \in Slots : AcquireForAdd(a)
    \/ \E a \in Slots : AddKnown(a)
    \/ \E a \in Slots : Collect(a)
    \/ Finish

SpecFair == InitFair /\ [][NextFair]_vars /\ WF_vars(NextFair)

\* ------------------------------------------------------- repeated runs
\* The program as configured (num_articles = NUM_ARTICLES), started up to
\* MaxRuns times on the same directory, with every backend response.  The
\* clock advances between the runs.
RunFeeds == SeqsUpTo(Items, NUM_ARTICLES)
RunGaps == {0, Window, Window + 1}

InitRuns == InitWith({NUM_ARTICLES}, InitDirs)

NextRuns ==
    \/ LoadHashes
    \/ FetchFail
    \/ \E feed \in RunFeeds : Len(feed) <= num_articles /\ FetchAndSubmit(feed)
    \/ \E a \in Slots : Start(a)
    \/ \E a \in Slots : AcquireForCheck(a)
    \/ \E a \in Slots : CheckKnown(a)
    \/ \E a \in Slots : ConvertNoKey(a)
    \/ \E a \in Slots, r \in Responses : Attempt(a, r)
    \/ \E a \in Slots : Stamp(a)
    \/ \E a \in Slots, img \in ImageOutcomes : Image(a, img)
    \/ \E a \in Slots, out \in SaveOutcomes : Save(a, out)
    \/ \E a \in Slots : AcquireForAdd(a)
    \/ \E a \in Slots : AddKnown(a)
    \/ \E a \in Slots : Collect(a)
    \/ Finish
    \/ \E d \in RunGaps : NextRun(d)

SpecRuns == InitRuns /\ [][NextRuns]_vars

\* ------------------------------------------------------------ the pool
\* A run that asks for one article more than the pool has threads: one
\* article with an identifier and the others without, every backend call
\* and write succeeding.
FanOutFeed ==
    <<Article(TitleTestEvent, "abc123")>>
        \o [i \in 1..(FanOutArticles - 1) |-> Article(TitleNews, None)]

InitFanOut ==
    /\ InitWith({FanOutArticles}, {EmptyDir})
    /\ envHashKey = "k"
    /\ envApiKey = TRUE

NextFanOut ==
    \/ LoadHashes
    \/ FetchAndSubmit(FanOutFeed)
    \/ \E a \in Slots : Start(a)
    \/ \E a \in Slots : AcquireForCheck(a)
    \/ \E a \in Slots : CheckKnown(a)
    \/ \E a \in Slots : Attempt(a, JsonObject("s", "s"))
    \/ \E a \in Slots : Stamp(a)
    \/ \E a \in Slots : Image(a, "ok")
    \/ \E a \in Slots : Save(a, "ok")
    \/ \E a \in Slots : AcquireForAdd(a)
    \/ \E a \in Slots : AddKnown(a)
    \/ \E a \in Slots : Collect(a)
    \/ Finish

SpecFanOut == InitFanOut /\ [][NextFanOut]_vars

\* ------------------------------------------- load_recent_article_hashes
\* The load alone, on directories of up to two files of every kind: with
\* and without a token, dated around the cutoff on a UTC, naive or offset
\* clock, undated, misdated, unreadable.
LoadTimes == {StartTime - Window - 1, StartTime - Window, StartTime - Window + 1,
              StartTime}
LoadOffsets == {0 - 1, 0, 1}
LoadDates ==
    {OffsetDate(t, off) : t \in LoadTimes, off \in LoadOffsets}
        \cup {NaiveDate(t) : t \in LoadTimes}
        \cup {MissingDate, BadDate, NonStringDate}
LoadTokens == {"h1", "h2", "", Absent}
Unreadable == File(FALSE, NoData, 0, 0)
LoadFiles ==
    {File(TRUE, OldRecord(h, d), 0, 0) : h \in LoadTokens, d \in LoadDates}
        \cup {Unreadable}
LoadNames == {FileName(0, TitleNews), FileName(0, TitleTestEvent)}
LoadDirs ==
    UNION {[names -> LoadFiles] : names \in SUBSET LoadNames}

InitLoad ==
    /\ envHashKey = "k"
    /\ envApiKey = FALSE
    /\ num_articles = NUM_ARTICLES
    /\ now \in StartTime..MaxTime
    /\ run = 1
    /\ mainPc = "start"
    /\ hash_key = None
    /\ known_hashes = {}
    /\ lockHolder = 0
    /\ articles = <<>>
    /\ IdleWorkers
    /\ disk \in LoadDirs
    /\ thumbs = EmptyDir
    /\ collected = {}
    /\ saved_files = <<>>
    /\ errors = {}
    /\ IdleLoop
    /\ sizeAt = [q \in Qualities |-> CeilingBytes]

NextLoad == LoadHashes

SpecLoad == InitLoad /\ [][NextLoad]_vars

\* ------------------------------------ generate_and_save_image, the loop
\* Lines 364-373 alone, for every encoder: sizeAt[q] is the length of the
\* JPEG the decoded image gives at quality q, at or over the ceiling.
EncodedSizes == {CeilingBytes, CeilingBytes + 1}
Encoders == [Qualities -> EncodedSizes]

ContinueLoopAboveFloor(len, q) == len > CeilingBytes /\ q > LoopFloor

ContinueLoopOneMore(len, q) == len > CeilingBytes /\ q >= LoopFloor - QualityStep

\* line 369: while len(data) > 1_000_000 and quality >= 30
ContinueLoop(len, q) == len > CeilingBytes /\ q >= LoopFloor

\* lines 365-368: the first encoding, at quality 100
EncodeFirst ==
    /\ loopPc = "start"
    /\ quality' = MaxQuality
    /\ dataLen' = sizeAt[MaxQuality]
    /\ encodes' = 1
    /\ loopPc' = "loop"
    /\ UNCHANGED <<envVars, mainVars, workerVars, now, run, known_hashes,
                   lockHolder, disk, thumbs, sizeAt>>

\* lines 369-373: one iteration of the loop
Reencode ==
    /\ loopPc = "loop"
    /\ ContinueLoop(dataLen, quality)
    /\ quality' = quality - QualityStep
    /\ dataLen' = sizeAt[quality - QualityStep]
    /\ encodes' = encodes + 1
    /\ UNCHANGED <<envVars, mainVars, workerVars, now, run, known_hashes,
                   lockHolder, disk, thumbs, loopPc, sizeAt>>

\* line 369 false: the loop is left and data is what is written (379-380)
LeaveLoop ==
    /\ loopPc = "loop"
    /\ ~ContinueLoop(dataLen, quality)
    /\ loopPc' = "done"
    /\ UNCHANGED <<envVars, mainVars, workerVars, now, run, known_hashes,
                   lockHolder, disk, thumbs, quality, dataLen, encodes, sizeAt>>

InitImage ==
    /\ envHashKey = "k"
    /\ envApiKey = TRUE
    /\ num_articles = NUM_ARTICLES
    /\ now = StartTime
    /\ run = 1
    /\ mainPc = "start"
    /\ hash_key = None
    /\ known_hashes = {}
    /\ lockHolder = 0
    /\ articles = <<>>
    /\ IdleWorkers
    /\ disk = EmptyDir
    /\ thumbs = EmptyDir
    /\ collected = {}
    /\ saved_files = <<>>
    /\ errors = {}
    /\ IdleLoop
    /\ sizeAt \in Encoders

NextImage == EncodeFirst \/ Reencode \/ LeaveLoop

\* the loop is sequential code: it is never suspended for ever
SpecImage == InitImage /\ [][NextImage]_vars /\ WF_vars(NextImage)

TypeOK ==
    /\ pc \in [Slots -> {"idle", "queued"} \cup Running \cup Terminal]
    /\ lockHolder \in {0} \cup Slots
    /\ mainPc \in {"start", "fetch", "pool", "done", "aborted"}

\* ---------------------------------------------------------------- claims
\* the worker passed the membership test and went on to convert
Accepted(a) == hashed_id[a] # None /\ pc[a] \in (Running \cup Terminal) \ {"lock_check", "check", "skipped"}
\* the files worker a wrote in this run
FilesBy(dir, a) == {f \in DOMAIN dir : dir[f].run = run /\ dir[f].by = a}
Range(q) == {q[i] : i \in 1..Len(q)}
NonEmptyString(v) == v \notin {Absent, Null, None, ""}
\* the response the claims call valid: an object with two non-empty strings
ValidResponse(r) == r.kind = "object" /\ NonEmptyString(r.headline) /\ NonEmptyString(r.text)
\* a response the claims call failed: unparsable, an error, or a field missing
FailedResponse(r) ==
    r.kind \in {"badjson", "error", "scalar"}
        \/ (r.kind = "object" /\ (r.headline = Absent \/ r.text = Absent))
\* the retry loop ran out of attempts
Exhausted(a) == attempt[a] >= max_retries

\* C1: of the workers of one run whose articles hash to the same token, at
\* most one is accepted (passes the duplicate test and goes on to convert
\* and persist), under every interleaving.
C1_OneAcceptancePerToken ==
    \A a \in Arts : \A b \in Arts :
        (a # b /\ hashed_id[a] # None /\ hashed_id[a] = hashed_id[b])
            => ~(Accepted(a) /\ Accepted(b))

\* C2: an article whose record an earlier run persisted with its token, and
\* whose record is still inside the retention window, is skipped by the
\* later run with the same secret: it never gets past the duplicate test.
C2_SecondRunSkips ==
    \A a \in Arts :
        (/\ hashed_id[a] # None
         /\ \E f \in DOMAIN disk :
                /\ disk[f].ok
                /\ disk[f].run >= 1
                /\ disk[f].run < run
                /\ hashed_id[a] \in {disk[f].data.article_id, disk[f].data.article_hash}
                /\ disk[f].data.date.kind = "iso"
                /\ disk[f].data.date.t >= now - Window)
            => pc[a] \in {"lock_check", "check", "skipped"}

\* C3: when the transformation succeeded and the thumbnail generator
\* returned None after its backend call, the worker does not end in a
\* failure state (its record is still persisted).
C3_ImageFailureNonFatal ==
    \A a \in Arts :
        (imgCalls[a] = 1 /\ image_filename[a] = NoName /\ exc[a] # "OSError")
            => pc[a] # "failed"

\* C4: a worker that found its token in the index is skipped, has made no
\* text-backend call and no image call, has written no file, and its test
\* left the index unchanged.
C4_DuplicateSkipNoEffects ==
    /\ [](\A a \in Arts :
            sawDup[a] =>
                /\ pc[a] = "skipped"
                /\ calls[a] = 0
                /\ imgCalls[a] = 0
                /\ filename[a] = NoName
                /\ FilesBy(disk, a) = {}
                /\ FilesBy(thumbs, a) = {})
    /\ [][\A a \in Slots :
            (~sawDup[a] /\ sawDup'[a]) => known_hashes' = known_hashes]_vars

C4_Witness ==
    \E a \in Arts : sawDup[a] /\ pc[a] = "skipped" /\ hashed_id[a] \in known_hashes

\* C5 as stated: with no secret configured no article is skipped as a
\* duplicate.
C5_NoSecretNoSkip ==
    envHashKey = "" => \A a \in Arts : pc[a] # "skipped"

\* C5 as amended: with no secret configured the run does not stop for lack
\* of it; it hashes with the built-in demo key, so every article that has
\* an identifier gets the demo-key token and is skipped exactly when that
\* token is in the index at its test.
C5_NoSecretUsesDemoKey ==
    envHashKey = "" =>
        /\ mainPc # "start" => hash_key = DemoKey
        /\ mainPc = "aborted" => hash_key = DemoKey /\ articles = <<>>
        /\ \A a \in Arts :
            /\ pc[a] # "queued" =>
                    hashed_id[a] = IF Truthy(articles[a].article_id)
                                   THEN hash_article_id(articles[a].article_id, DemoKey)
                                   ELSE None
            /\ pc[a] = "skipped" <=> sawDup[a]

C5_Witness ==
    envHashKey = "" /\ \E a \in Arts : pc[a] = "skipped" /\ hashed_id[a] \in known_hashes

\* C6: an article whose conversion ran out of attempts gets no JSON record
\* and no thumbnail, makes no image call, never reaches the insertion of its
\* token, and does not stop the run: main still collects every article in a
\* terminal state.
C6_TransformFailureDropsArticle ==
    /\ \A a \in Arts :
            Exhausted(a) =>
                /\ pc[a] \in {"stamp", "failed"}
                /\ imgCalls[a] = 0
                /\ filename[a] = NoName
                /\ FilesBy(disk, a) = {}
                /\ FilesBy(thumbs, a) = {}
    /\ (\E a \in Arts : Exhausted(a)) => mainPc \in {"pool", "done"}
    /\ mainPc = "done" => \A b \in Arts : pc[b] \in Terminal

C6_Witness ==
    /\ mainPc = "done"
    /\ \E a \in Arts : \E b \in Arts :
            /\ Exhausted(a) /\ pc[a] = "failed"
            /\ pc[b] = "persisted" /\ FilesBy(disk, b) # {}

\* C7: an exception of a worker is caught where main collects the result:
\* the run is never aborted once articles are dispatched, the failed article
\* is logged, and when the run is done every article is terminal and
\* saved_files holds the names returned by the workers that did not fail.
C7_WorkerFailureIsolated ==
    /\ mainPc = "aborted" => articles = <<>>
    /\ \A a \in collected : pc[a] = "failed" <=> a \in errors
    /\ Range(saved_files) = {filename[a] : a \in collected \ errors}
    /\ mainPc = "done" =>
            /\ collected = Arts
            /\ \A a \in Arts : pc[a] \in Terminal
            /\ \A a \in Arts : pc[a] = "persisted" => filename[a] \in Range(saved_files)

C7_Witness ==
    /\ mainPc = "done"
    /\ \E a \in Arts : \E b \in Arts :
            /\ pc[a] = "failed" /\ a \in errors
            /\ pc[b] = "persisted" /\ filename[b] \in Range(saved_files)

\* C8: when the k-th response is the first valid one (k from 1 to the
\* budget), the loop returns that response's headline and text after
\* exactly k calls and calls the backend no more.
C8_StopsAtFirstValid ==
    \A a \in Arts :
        ValidResponse(lastResp[a]) =>
            /\ pc[a] # "convert"
            /\ ~emojipasta_data[a].isNone
            /\ emojipasta_data[a].headline = lastResp[a].headline
            /\ emojipasta_data[a].text = lastResp[a].text
            /\ calls[a] = attempt[a] + 1
            /\ calls[a] <= max_retries

C8_Witness ==
    \E a \in Arts :
        /\ ValidResponse(lastResp[a])
        /\ attempt[a] = max_retries - 1
        /\ calls[a] = max_retries
        /\ pc[a] = "persisted"

C10_ResultFieldsNonEmpty ==
    /\ \A a \in Arts :
            ~emojipasta_data[a].isNone =>
                NonEmptyString(emojipasta_data[a].headline)
                    /\ NonEmptyString(emojipasta_data[a].text)
    /\ \A f \in DOMAIN disk :
            (disk[f].ok /\ disk[f].run >= 1) =>
                NonEmptyString(disk[f].data.headline)
                    /\ NonEmptyString(disk[f].data.text)

\* the tokens a record carries, under either field name
RecordTokens(data) == {data.article_id, data.article_hash} \ {Absent}
\* the readable records whose date is inside the retention window at time t
LiveRecords(dir, t) ==
    {f \in DOMAIN dir :
        dir[f].ok /\ dir[f].data.date.kind = "iso" /\ dir[f].data.date.t >= t - Window}

\* C11: once the index is loaded, a token is in it if and only if a
\* non-expired persisted record carries it or an article with that token
\* was accepted in this run; a worker reads or writes the index only while
\* it holds the lock.
C11_IndexInvariant ==
    mainPc \in {"fetch", "pool", "done"} =>
        /\ \A a \in Arts :
                hashed_id[a] # None =>
                    (hashed_id[a] \in known_hashes <=>
                        \/ \E f \in LiveRecords(disk, now) :
                                hashed_id[a] \in RecordTokens(disk[f].data)
                        \/ \E b \in Arts : hashed_id[b] = hashed_id[a] /\ Accepted(b))
        /\ \A t \in known_hashes :
                \/ \E f \in LiveRecords(disk, now) : t \in RecordTokens(disk[f].data)
                \/ \E b \in Arts : hashed_id[b] = t /\ Accepted(b)
        /\ \A a \in Arts : pc[a] \in {"check", "add"} => lockHolder = a

\* C12: an article without a raw identifier gets no token, never enters the
\* duplicate test and is never skipped, its record carries no token, and it
\* never takes the lock or reaches the insertion into the index.
C12_NoIdentifierBypassesDedup ==
    \A a \in Arts :
        (articles[a].article_id = None /\ pc[a] # "queued") =>
            /\ hashed_id[a] = None
            /\ ~sawDup[a]
            /\ pc[a] \notin {"lock_check", "check", "skipped", "lock_add", "add"}
            /\ lockHolder # a
            /\ emojipasta_data[a].article_id = Absent
            /\ emojipasta_data[a].article_hash = Absent
            /\ \A f \in FilesBy(disk, a) : RecordTokens(disk[f].data) = {}

C12_Witness ==
    \E a \in Arts : \E b \in Arts :
        /\ articles[a].article_id = None
        /\ pc[a] = "persisted"
        /\ \E f \in FilesBy(disk, a) : disk[f].ok
        /\ hashed_id[b] \in known_hashes

\* C15: no two workers of a run return the same record path, and no two
\* write the same thumbnail path.
C15_OutputFilesDoNotCollide ==
    \A a \in Arts : \A b \in Arts :
        a # b =>
            /\ (filename[a] # NoName /\ filename[b] # NoName) => filename[a] # filename[b]
            /\ (image_filename[a] # NoName /\ image_filename[b] # NoName)
                    => image_filename[a] # image_filename[b]

\* the files of a directory written in the current run
FilesOfRun(dir) == {f \in DOMAIN dir : dir[f].run = run}

\* C16: when the feed fetch fails the run is aborted with no article
\* dispatched, no backend call made, no file written and the index as it
\* was loaded; and a worker step, a backend call or a file of this run
\* exists only after the fetch has succeeded.
C16_FetchFailureFatalBeforeProcessing ==
    /\ mainPc = "aborted" =>
            /\ articles = <<>>
            /\ collected = {} /\ saved_files = <<>> /\ errors = {}
            /\ known_hashes = load_recent_article_hashes(disk, now, RetentionDays)
    /\ mainPc \notin {"pool", "done"} =>
            /\ \A a \in Slots : pc[a] = "idle" /\ calls[a] = 0 /\ imgCalls[a] = 0
            /\ lockHolder = 0
            /\ FilesOfRun(disk) = {}
            /\ FilesOfRun(thumbs) = {}

C16_Witness ==
    mainPc = "aborted" /\ known_hashes # {} /\ FilesOfRun(disk) = {}

\* the conversion of article a returned a result
TransformSucceeded(a) == ~emojipasta_data[a].isNone /\ HasRequiredFields(lastResp[a])
\* the record write of article a completed
RecordWritten(a) == filename[a] # NoName

\* C19: for every article the steps come in the order conversion, one image
\* call, record write, token insertion: at most one image call is made and
\* only after the conversion succeeded; a file is written only after the
\* image call; the insertion is reached only after the record write; and
\* the index changes during the pool phase only by the insertion of the
\* token of a worker whose record is written.
C19_StepOrder ==
    /\ [](\A a \in Arts :
            /\ imgCalls[a] <= 1
            /\ imgCalls[a] = 1 => TransformSucceeded(a) /\ timestamp[a] # 0
            /\ FilesBy(thumbs, a) # {} => imgCalls[a] = 1
            /\ FilesBy(disk, a) # {} => imgCalls[a] = 1 /\ image_filename[a] # NoName
            /\ RecordWritten(a) => FilesBy(thumbs, a) # {} \/ image_filename[a] \in DOMAIN thumbs
            /\ pc[a] \in {"lock_add", "add", "persisted"} => RecordWritten(a)
            /\ pc[a] = "persisted" => imgCalls[a] = 1 /\ calls[a] >= 1)
    /\ [][(mainPc = "pool" /\ known_hashes' # known_hashes) =>
            \E a \in Slots :
                /\ pc[a] = "add" /\ pc'[a] = "persisted"
                /\ RecordWritten(a)
                /\ known_hashes' = known_hashes \cup {hashed_id[a]}]_vars

C19_Witness ==
    \E a \in Arts :
        /\ pc[a] = "persisted"
        /\ hashed_id[a] \in known_hashes
        /\ RecordWritten(a)
        /\ imgCalls[a] = 1

\* what a record holds apart from its token: the backend's object, the
\* time of the stamp and the name of the image
PublicRecord(a) ==
    [ResultOf(lastResp[a]) EXCEPT !.date = IsoDate(timestamp[a]),
                                  !.image = FileName(timestamp[a], articles[a].title)]

\* C18: the raw identifier of an article does not reach the persisted
\* output.  A record written in this run and its file name are determined
\* by the title, the backend's response and the time alone, except for the
\* token field; the token field is absent or holds the keyed hash of the
\* identifier, and no string field of the record equals the identifier.
\* (Two runs that differ only in the identifier therefore write the same
\* names and the same records up to the token field.)
C18_RawIdentifierNeverPersisted ==
    \A a \in Arts : \A f \in FilesBy(disk, a) :
        (disk[f].run = run /\ disk[f].ok) =>
            LET d == disk[f].data
                id == articles[a].article_id
            IN  /\ f = FileName(timestamp[a], articles[a].title)
                /\ [d EXCEPT !.article_id = Absent] = PublicRecord(a)
                /\ d.article_id \in {Absent, hash_article_id(id, hash_key)}
                /\ Truthy(id) =>
                        id \notin {d.headline, d.text, d.article_id, d.article_hash}

C18_Witness ==
    \E a \in Arts : \E f \in FilesBy(disk, a) :
        /\ disk[f].run = run /\ disk[f].ok
        /\ Truthy(articles[a].article_id)
        /\ disk[f].data.article_id = hash_article_id(articles[a].article_id, hash_key)

\* the instant a parsable timestamp denotes when one without a zone is
\* read as UTC
Instant(date) == IF date.naive THEN date.t ELSE date.t - date.off

\* the tokens the claim describes: of readable records with a token and a
\* parsable timestamp not older than days
TokensInWindow(dir, t, days) ==
    {h \in LoadTokens \ {"", Absent} :
        \E f \in DOMAIN dir :
            /\ dir[f].ok
            /\ dir[f].data.article_hash = h
            /\ dir[f].data.date.kind = "iso"
            /\ Instant(dir[f].data.date) >= t - days * TicksPerDay}

\* C14: the load returns exactly the tokens of the records that have a
\* token and a parsable timestamp t >= now - days, a timestamp without a
\* zone read as UTC; older, undated, misdated and unreadable records add
\* nothing, and the load completes on every directory.
C14_RetentionWindowLoad ==
    /\ mainPc = "start" => ENABLED LoadHashes
    /\ mainPc # "start" =>
            known_hashes = TokensInWindow(disk, now, RetentionDays)
    /\ \A days \in 0..(RetentionDays + 1) :
            load_recent_article_hashes(disk, now, days) = TokensInWindow(disk, now, days)

C14_Witness ==
    /\ mainPc = "fetch"
    /\ \E f, g \in DOMAIN disk :
            /\ disk[f].ok /\ disk[f].data.date = NaiveDate(now - Window)
            /\ disk[f].data.article_hash \in known_hashes
            /\ disk[g].ok /\ disk[g].data.date.kind = "iso"
            /\ disk[g].data.article_hash = "h2"
            /\ "h2" \notin known_hashes

\* the qualities from the maximum down to the floor of the claim
Reachable == {q \in Qualities : q >= 25}

C20_LoopTerminates ==
    /\ <>(loopPc = "done")
    /\ [](loopPc # "start" =>
            /\ quality >= 25 /\ quality <= 100
            /\ encodes = 1 + (100 - quality) \div 5
            /\ encodes - 1 <= 15
            /\ \A q \in Qualities : q > quality => sizeAt[q] > 1000000)
    /\ [][/\ loopPc = "start" => quality' = 100
          /\ loopPc = "loop" =>
                \/ quality' = quality - 5 /\ dataLen > 1000000
                \/ quality' = quality /\ loopPc' = "done"
          /\ (loopPc = "loop" /\ dataLen <= 1000000) => loopPc' = "done"]_vars

C20_Witness ==
    /\ loopPc = "done"
    /\ quality = 25
    /\ encodes = 16
    /\ dataLen > 1000000

\* the articles whose pipeline is in progress
InProgress == {a \in Arts : pc[a] \in Running}

\* C17: at every moment the number of articles in progress is at most
\* min(number of articles, 5); an article is queued once, when the feed has
\* been fetched, starts once, and never starts again; and when the run is
\* done every fetched article has been through a worker.
C17_BoundedFanOut ==
    /\ [](/\ Cardinality(InProgress) <= Min(num_articles, 5)
          /\ Cardinality(InProgress) <= Min(Len(articles), 5)
          /\ mainPc = "pool" => \A a \in Arts : pc[a] # "idle"
          /\ mainPc = "done" => \A a \in Arts : pc[a] \in Terminal)
    /\ [][\A a \in Slots :
            /\ (pc'[a] = "queued" /\ pc[a] # "queued") =>
                    pc[a] = "idle" /\ mainPc = "fetch"
            /\ (pc[a] = "queued" /\ pc'[a] # "queued") =>
                    pc'[a] \in {"lock_check", "convert"}
            /\ pc[a] \in Running \cup Terminal =>
                    pc'[a] \in Running \cup Terminal]_vars

C17_Witness ==
    /\ Cardinality(InProgress) = 5
    /\ \E a \in Arts : pc[a] = "queued"
    /\ \E a \in Arts : pc[a] = "save"

\* C21: the lock is held only at the membership test and at the insertion,
\* no backend call and no file write happens while it is held, the step
\* that leaves the test or the insertion releases it (the duplicate return
\* included); and under fair scheduling a run that dispatched its articles
\* finishes with every article skipped, persisted or failed.
C21_TerminatesWithoutLockBlocking ==
    /\ [](/\ \A a \in Slots : (lockHolder = a) <=> (pc[a] \in {"check", "add"})
          /\ lockHolder # 0 => lockHolder \in Arts)
    /\ [][/\ \A a \in Slots :
                (calls'[a] # calls[a] \/ imgCalls'[a] # imgCalls[a])
                    => (lockHolder # a /\ lockHolder' # a)
          /\ (disk' # disk \/ thumbs' # thumbs) =>
                \E b \in Arts :
                    /\ pc[b] \in {"image", "save"} /\ pc'[b] # pc[b]
                    /\ lockHolder # b /\ lockHolder' # b
          /\ \A a \in Slots :
                (pc[a] \in {"check", "add"} /\ pc'[a] # pc[a]) => lockHolder' = 0]_vars
    /\ (mainPc = "pool") ~>
            (mainPc = "done" /\ \A a \in Arts : pc[a] \in Terminal)
    /\ <>(mainPc \in {"done", "aborted"})

C21_Witness ==
    /\ mainPc = "done"
    /\ \E a, b \in Arts :
            /\ pc[a] = "skipped" /\ sawDup[a]
            /\ pc[b] \in {"persisted", "skipped"} /\ a # b
            /\ hashed_id[b] # None
    /\ lockHolder = 0
====
